---- MODULE Spec2Model ----
(***************************************************************************)
(* Model of src/plots/liquid/shapes/liquid.ts: the 'liquid-fill-gauge'     *)
(* interval shape (wave path generation, style resolution, draw).          *)
(*                                                                         *)
(* Numbers.  JavaScript numbers are modelled as exact rationals <<n, d>>   *)
(* (d > 0, lowest terms).  Angles (phase) are rationals in units of pi, so *)
(* Math.PI is 1 and Math.PI * 2 is 2 on phases.  An x coordinate that      *)
(* involves a division by Math.PI is the pair <<q, ip>> standing for       *)
(* q + ip / pi, both rationals; y coordinates are plain rationals.         *)
(***************************************************************************)
EXTENDS Integers, Sequences, FiniteSets, TLC

VARIABLES
  args,       \* path harness: the arguments of one getWaterWavePath call
  path,       \* path harness: the path that call returned
  pc,         \* which harness step has run
  cfg,        \* the shape configuration handed to draw / the attrs getters
  host,       \* host geometry and per-wave animate outcome
  fillAttrs,  \* attrs harness: result of getFillAttrs(cfg)
  lineAttrs,  \* attrs harness: result of getLineAttrs(cfg)
  container,  \* children of the container handed to draw, in insertion order
  animLog,    \* wave.animate requests made so far, in order
  console,    \* console.error messages so far
  threw,      \* whether the last draw call ended by an exception
  draws       \* number of draw calls made on the container

vars == <<args, path, pc, cfg, host, fillAttrs, lineAttrs, container, animLog,
          console, threw, draws>>

---------------------------------------------------------------------------
(* Bounds of the model *)

MaxRadius == 3
MaxWaveLength == 4
MaxAmplitude == 2
MaxCoord == 1
\* phases are k * pi / PhaseDen for k in -MaxPhaseTurns*2*PhaseDen .. idem
PhaseDen == 2
MaxPhaseTurns == 2
MaxDraws == 2
MaxCanvas == 2
\* translation offsets checked: k * distance / TSteps for k in 0..TSteps
TSteps == 4

---------------------------------------------------------------------------
(* Exact arithmetic standing for JavaScript's number operators *)

Abs(n) == IF n < 0 THEN -n ELSE n

RECURSIVE GCD(_, _)
GCD(a, b) == IF b = 0 THEN a ELSE GCD(b, a % b)

\* the rational n / d (d # 0) in lowest terms with a positive denominator
Q(n, d) ==
  LET g == GCD(Abs(n), Abs(d))
      s == IF d < 0 THEN -1 ELSE 1
  IN <<(s * n) \div g, (s * d) \div g>>

R(n) == <<n, 1>>

RAdd(a, b) == Q(a[1] * b[2] + b[1] * a[2], a[2] * b[2])
RNeg(a) == <<-a[1], a[2]>>
RSub(a, b) == RAdd(a, RNeg(b))
RMul(a, b) == Q(a[1] * b[1], a[2] * b[2])
RDiv(a, b) == Q(a[1] * b[2], a[2] * b[1])
RLt(a, b) == a[1] * b[2] < b[1] * a[2]
RLe(a, b) == a[1] * b[2] <= b[1] * a[2]
RMin(a, b) == IF RLt(b, a) THEN b ELSE a

\* Math.ceil, as an integer
Ceil(a) == -((-a[1]) \div a[2])

\* r / Math.PI
OverPi(r) == <<R(0), r>>
\* (r / Math.PI) * (Math.PI - k)  =  r - k * r / pi
OverPiTimesPiMinus(r, k) == <<r, RMul(R(-k), r)>>
\* q + v for a rational q and v = <<a, b>> standing for a + b / pi
XAdd(q, v) == <<RAdd(q, v[1]), v[2]>>
\* a rational as an x coordinate
X(q) == <<q, R(0)>>

---------------------------------------------------------------------------
(* lerp *)

\* mutant of lerp: the two ends are swapped
lerpSwapped(a, b, factor) == RAdd(RMul(RSub(R(1), factor), b), RMul(factor, a))

lerp(a, b, factor) == RAdd(RMul(RSub(R(1), factor), a), RMul(factor, b))

---------------------------------------------------------------------------
(* getWaterWavePositions: the three Bezier points of one quarter wave *)

getWaterWavePositions(x, stage, waveLength, amplitude) ==
  LET half == RMul(Q(1, 2), waveLength)
      quarter == RDiv(waveLength, R(4))
  IN
  IF stage = 0 THEN
    << <<XAdd(x, OverPi(RDiv(half, R(2)))), RDiv(amplitude, R(2))>>,
       <<XAdd(x, OverPi(half)), amplitude>>,
       <<X(RAdd(x, quarter)), amplitude>> >>
  ELSE IF stage = 1 THEN
    << <<XAdd(x, OverPiTimesPiMinus(RDiv(half, R(2)), 2)), amplitude>>,
       <<XAdd(x, OverPiTimesPiMinus(RDiv(half, R(2)), 1)), RDiv(amplitude, R(2))>>,
       <<X(RAdd(x, quarter)), R(0)>> >>
  ELSE IF stage = 2 THEN
    << <<XAdd(x, OverPi(RDiv(half, R(2)))), RDiv(RNeg(amplitude), R(2))>>,
       <<XAdd(x, OverPi(half)), RNeg(amplitude)>>,
       <<X(RAdd(x, quarter)), RNeg(amplitude)>> >>
  ELSE
    << <<XAdd(x, OverPiTimesPiMinus(RDiv(half, R(2)), 2)), RNeg(amplitude)>>,
       <<XAdd(x, OverPiTimesPiMinus(RDiv(half, R(2)), 1)), RDiv(RNeg(amplitude), R(2))>>,
       <<X(RAdd(x, quarter)), R(0)>> >>

---------------------------------------------------------------------------
(* getWaterWavePath *)

\* Math.PI * 2 on phases (phases are in units of pi)
TwoPi == R(2)

\* mutant of Curves: Math.floor in place of Math.ceil
CurvesFloor(radius, waveLength) ==
  (RMul(RDiv(RMul(R(2), radius), waveLength), R(4))[1]
     \div RMul(RDiv(RMul(R(2), radius), waveLength), R(4))[2]) * 2

\* mutant of Curves: the count is not doubled
CurvesNotDoubled(radius, waveLength) ==
  Ceil(RMul(RDiv(RMul(R(2), radius), waveLength), R(4)))

\* const curves = Math.ceil(((2 * radius) / waveLength) * 4) * 2
Curves(radius, waveLength) ==
  Ceil(RMul(RDiv(RMul(R(2), radius), waveLength), R(4))) * 2

\* while (_phase < -Math.PI * 2) _phase += Math.PI * 2
RECURSIVE RaisePhase(_)
RaisePhase(p) ==
  IF RLt(p, RNeg(TwoPi)) THEN RaisePhase(RAdd(p, TwoPi)) ELSE p

\* while (_phase > 0) _phase -= Math.PI * 2
RECURSIVE LowerPhase(_)
LowerPhase(p) ==
  IF RLt(R(0), p) THEN LowerPhase(RSub(p, TwoPi)) ELSE p

\* mutant of NormalizePhase: the first loop is missing
NormalizePhaseNoRaise(phase) == LowerPhase(phase)

\* mutant of NormalizePhase: the second loop is missing
NormalizePhaseNoLower(phase) == RaisePhase(phase)

\* the value of _phase after the two loops
NormalizePhase(phase) == LowerPhase(RaisePhase(phase))

\* _phase = (_phase / Math.PI / 2) * waveLength
PhaseOffset(phase, waveLength) ==
  RMul(RDiv(NormalizePhase(phase), R(2)), waveLength)

\* const left = cx - radius + _phase - radius * 2
Left(radius, waveLength, phase, cx) ==
  RSub(RAdd(RSub(cx, radius), PhaseOffset(phase, waveLength)),
       RMul(radius, R(2)))

\* one iteration of the loop over c: the 'C' command pushed
CurveCommand(c, left, waterLevel, waveLength, amplitude) ==
  LET stage == c % 4
      pos == getWaterWavePositions(RDiv(RMul(R(c), waveLength), R(4)),
                                   stage, waveLength, amplitude)
  IN << "C",
        XAdd(left, pos[1][1]), RAdd(RNeg(pos[1][2]), waterLevel),
        XAdd(left, pos[2][1]), RAdd(RNeg(pos[2][2]), waterLevel),
        XAdd(left, pos[3][1]), RAdd(RNeg(pos[3][2]), waterLevel) >>

\* waveRight: 0, overwritten in the iteration c === curves - 1 by pos[2][0]
WaveRight(curves, waveLength, amplitude) ==
  IF curves >= 1
  THEN getWaterWavePositions(RDiv(RMul(R(curves - 1), waveLength), R(4)),
                             (curves - 1) % 4, waveLength, amplitude)[3][1]
  ELSE X(R(0))

getWaterWavePath(radius, waterLevel, waveLength, phase, amplitude, cx, cy) ==
  LET curves == Curves(radius, waveLength)
      left == Left(radius, waveLength, phase, cx)
      waveRight == WaveRight(curves, waveLength, amplitude)
  IN << <<"M", X(left), waterLevel>> >>
     \o [k \in 1..curves |->
           CurveCommand(k - 1, left, waterLevel, waveLength, amplitude)]
     \o << <<"L", XAdd(left, waveRight), RAdd(cy, radius)>>,
           <<"L", X(left), RAdd(cy, radius)>>,
           <<"Z">> >>

---------------------------------------------------------------------------
(* JavaScript objects: functions from a set of keys; an absent key is       *)
(* undefined.  a @@ b keeps a's value where both define a key.              *)

Empty == [k \in {} |-> k]

Has(obj, key) == key \in DOMAIN obj

\* truthiness of a string-valued property: undefined and '' are falsy
Truthy(obj, key) == Has(obj, key) /\ obj[key] # ""

\* mix(dist, ...) of @antv/util and object spread: later sources win
mix(a, b) == b @@ a

---------------------------------------------------------------------------
(* getFillAttrs, getLineAttrs *)

\* mutant of getFillAttrs: the !attrs.fill test is missing
getFillAttrsColorWins(c) ==
  LET attrs == mix([opacity |-> R(1)], c.style)
  IN IF Truthy(c, "color") THEN mix(attrs, [fill |-> c.color]) ELSE attrs

getFillAttrs(c) ==
  LET attrs == mix([opacity |-> R(1)], c.style)
  IN IF Truthy(c, "color") /\ ~Truthy(attrs, "fill")
     THEN mix(attrs, [fill |-> c.color])
     ELSE attrs

getLineAttrs(c) ==
  LET defaultAttrs == [fill |-> "#fff", fillOpacity |-> R(0), lineWidth |-> R(2)]
      attrs == mix(defaultAttrs, c.style)
      attrs2 == IF Truthy(c, "color") /\ ~Truthy(attrs, "stroke")
                THEN mix(attrs, [stroke |-> c.color])
                ELSE attrs
  IN IF Has(c, "opacity")
     THEN mix(attrs2, [opacity |-> c.opacity, strokeOpacity |-> c.opacity])
     ELSE attrs2

---------------------------------------------------------------------------
(* Host collaborators *)

\* this.parsePoint: unit square to canvas, y axis pointing up
parsePoint(h, p) ==
  [x |-> RMul(p.x, R(h.width)), y |-> RMul(RSub(R(1), p.y), R(h.height))]

\* clip.getBBox() of the clip circle set by waves.setClip
getBBox(clip) ==
  [minX |-> RSub(clip.attrs.x, clip.attrs.r), maxX |-> RAdd(clip.attrs.x, clip.attrs.r),
   minY |-> RSub(clip.attrs.y, clip.attrs.r), maxY |-> RAdd(clip.attrs.y, clip.attrs.r)]

\* transform([['t', tx, ty]]) of utils/matrix: the 3x3 translation matrix
transform(actions) ==
  << R(1), R(0), R(0), R(0), R(1), R(0), actions[1][2], actions[1][3], R(1) >>

\* group.addShape / container.addShape / container.addGroup: append a child
addShape(children, shape) == Append(children, shape)

---------------------------------------------------------------------------
(* addWaterWave *)

duration == 5000

\* the wave shape added in iteration i
WaveShape(i, x, y, level, waveCount, waveAttrs, bbox, radius) ==
  LET width == RSub(bbox.maxX, bbox.minX)
      height == RSub(bbox.maxY, bbox.minY)
      factor == IF waveCount <= 1 THEN R(0) ELSE Q(i, waveCount - 1)
      fill == IF Has(waveAttrs, "fill") THEN [fill |-> waveAttrs.fill] ELSE Empty
  IN [type |-> "path",
      name |-> "wave-path-" \o ToString(i),
      attrs |-> fill @@
        [path |-> getWaterWavePath(radius, RAdd(bbox.minY, RMul(height, level)),
                                   RDiv(width, R(4)), R(0),
                                   RDiv(width, lerp(R(56), R(64), factor)), x, y),
         opacity |-> RMul(lerp(Q(6, 10), Q(3, 10), factor), waveAttrs.opacity)]]

\* mutant of AnimateRequest: the translation is a third of the width
AnimateRequestThird(i, waveCount, bbox) ==
  LET width == RSub(bbox.maxX, bbox.minX)
      factor == IF waveCount <= 1 THEN R(0) ELSE Q(i, waveCount - 1)
  IN [shape |-> "wave-path-" \o ToString(i),
      matrix |-> transform(<< <<"t", RDiv(width, R(3)), R(0)>> >>),
      duration |-> lerp(R(duration), RMul(Q(7, 10), R(duration)), factor),
      repeat |-> TRUE]

\* the animate request of iteration i
AnimateRequest(i, waveCount, bbox) ==
  LET width == RSub(bbox.maxX, bbox.minX)
      factor == IF waveCount <= 1 THEN R(0) ELSE Q(i, waveCount - 1)
  IN [shape |-> "wave-path-" \o ToString(i),
      matrix |-> transform(<< <<"t", RDiv(width, R(2)), R(0)>> >>),
      duration |-> lerp(R(duration), RMul(Q(7, 10), R(duration)), factor),
      repeat |-> TRUE]

\* mutant of TryAnimate: no try / catch around wave.animate
AnimateNoCatch(st, i, req, fails) ==
  IF i \in fails
  THEN [st EXCEPT !.anim = Append(@, req), !.thrown = TRUE]
  ELSE [st EXCEPT !.anim = Append(@, req)]

\* try { wave.animate(...) } catch (e) { console.error(...) }
\* fails: the wave indices whose animate call throws
TryAnimate(st, i, req, fails) ==
  IF i \in fails
  THEN [st EXCEPT !.anim = Append(@, req),
                  !.console = Append(@, "off-screen group animate error!")]
  ELSE [st EXCEPT !.anim = Append(@, req)]

\* the for loop, from iteration i on; st.thrown is an exception in flight
RECURSIVE WaveLoop(_, _, _, _, _, _, _, _, _, _)
WaveLoop(i, st, x, y, level, waveCount, waveAttrs, bbox, radius, fails) ==
  IF i >= waveCount \/ st.thrown THEN st
  ELSE
    LET wave == WaveShape(i, x, y, level, waveCount, waveAttrs, bbox, radius)
        added == [st EXCEPT !.group.children = addShape(@, wave)]
        next == TryAnimate(added, i, AnimateRequest(i, waveCount, bbox), fails)
    IN WaveLoop(i + 1, next, x, y, level, waveCount, waveAttrs, bbox, radius, fails)

addWaterWave(x, y, level, waveCount, waveAttrs, group, clip, radius, fails) ==
  WaveLoop(0, [group |-> group, anim |-> <<>>, console |-> <<>>, thrown |-> FALSE],
           x, y, level, waveCount, waveAttrs, getBBox(clip), radius, fails)

---------------------------------------------------------------------------
(* draw of registerShape('interval', 'liquid-fill-gauge', ...) *)

\* reduce(cfg.points, (r, p) => Math.min(r, p.x), Infinity), points non-empty
RECURSIVE MinX(_)
MinX(points) ==
  IF Len(points) = 1 THEN points[1].x
  ELSE RMin(MinX(Tail(points)), points[1].x)

\* isNumber(cfg.customInfo.radius) ? cfg.customInfo.radius : 0.9
Radio(c) == IF Has(c.customInfo, "radius") THEN c.customInfo.radius ELSE Q(9, 10)

\* Math.min(halfWidth, minXPoint.y * radio)
Radius(c, h) ==
  LET center == parsePoint(h, [x |-> Q(1, 2), y |-> Q(1, 2)])
      minXPoint == parsePoint(h, [x |-> MinX(c.points), y |-> Q(1, 2)])
      halfWidth == RSub(center.x, minXPoint.x)
  IN RMin(halfWidth, RMul(minXPoint.y, Radio(c)))

\* the 'wrap' circle added after the waves
RingShape(c, center, radius) ==
  [type |-> "circle",
   name |-> "wrap",
   attrs |-> mix(getLineAttrs(c),
                 [x |-> center.x, y |-> center.y, r |-> radius,
                  fill |-> "transparent"])]

\* the waveCount draw passes to addWaterWave
WaveCount == 3

\* draw(cfg, container) with this.parsePoint = parsePoint(h, _); the result
\* holds the container's children, the animate requests and console.error
\* messages of this call, and whether the call ended by an exception
draw(c, children, h) ==
  LET center == parsePoint(h, [x |-> Q(1, 2), y |-> Q(1, 2)])
      radius == Radius(c, h)
      waveAttrs == getFillAttrs(c)
      clipCircle == [type |-> "circle",
                     attrs |-> [x |-> center.x, y |-> center.y, r |-> radius]]
      waves == [type |-> "group", name |-> "waves", clip |-> clipCircle,
                children |-> <<>>]
      \* after addWaterWave returned (or threw) w
      Rest(w) ==
        IF w.thrown
        THEN [container |-> addShape(children, w.group), anim |-> w.anim,
              console |-> w.console, threw |-> TRUE]
        ELSE [container |-> addShape(addShape(children, w.group),
                                     RingShape(c, center, radius)),
              anim |-> w.anim, console |-> w.console, threw |-> FALSE]
      \* the addWaterWave call, evaluated once
      called == {addWaterWave(center.x, center.y, RSub(R(1), c.points[2].y),
                              WaveCount, waveAttrs, waves, clipCircle,
                              RMul(radius, R(4)), h.fails)}
  IN CHOOSE r \in {Rest(w) : w \in called} : TRUE

---------------------------------------------------------------------------
(* Inputs *)

\* an object holding key when v is a one-element sequence, nothing when <<>>
Opt(key, v) == IF v = <<>> THEN Empty ELSE (key :> v[1])

Phases ==
  { Q(k, PhaseDen) :
      k \in -(MaxPhaseTurns * 2 * PhaseDen)..(MaxPhaseTurns * 2 * PhaseDen) }

\* the documented precondition: radius > 0, waveLength > 0, amplitude >= 0
PathArgs ==
  [radius : {R(n) : n \in 1..MaxRadius},
   waterLevel : {R(0), R(MaxCoord)},
   waveLength : {R(n) : n \in 1..MaxWaveLength},
   phase : Phases,
   amplitude : {R(n) : n \in 0..MaxAmplitude},
   cx : {R(0), R(MaxCoord)},
   cy : {R(0), R(MaxCoord)}]

GaugePoints ==
  { << [x |-> R(0), y |-> Q(1, 2)], [x |-> R(1), y |-> Q(7, 10)] >>,
    << [x |-> R(1), y |-> Q(1, 5)], [x |-> Q(1, 4), y |-> Q(1, 2)] >> }

DefaultPoints == << [x |-> R(0), y |-> Q(1, 2)], [x |-> R(1), y |-> Q(7, 10)] >>

Config(style, color, opacity, radius, points) ==
  [style |-> style, customInfo |-> Opt("radius", radius), points |-> points]
    @@ Opt("color", color) @@ Opt("opacity", opacity)

AttrStyles ==
  { Opt("fill", f) @@ Opt("stroke", s) @@ Opt("opacity", o) :
      f \in {<<>>, <<"">>, <<"#00f">>},
      s \in {<<>>, <<"">>, <<"#0f0">>},
      o \in {<<>>, <<R(0)>>, <<Q(1, 2)>>} }

AttrConfigs ==
  { Config(st, c, o, <<>>, DefaultPoints) :
      st \in AttrStyles,
      c \in {<<>>, <<"">>, <<"#f00">>},
      o \in {<<>>, <<R(0)>>, <<Q(1, 2)>>} }

DrawStyles ==
  { Empty, [opacity |-> R(0)], [opacity |-> Q(1, 2)], [fill |-> "#00f"] }

DrawConfigs ==
  { Config(st, <<"#f00">>, <<>>, <<>>, DefaultPoints) : st \in DrawStyles }
  \cup
  { Config(Empty, <<>>, <<Q(1, 2)>>, <<Q(1, 2)>>, pts) : pts \in GaugePoints }

Hosts ==
  [width : 1..MaxCanvas, height : 1..MaxCanvas, fails : SUBSET (0..(WaveCount - 1))]

NoConfig == Config(Empty, <<>>, <<>>, <<>>, DefaultPoints)
NoHost == [width |-> 1, height |-> 1, fails |-> {}]

---------------------------------------------------------------------------
(* SpecPath: one call of getWaterWavePath on arbitrary valid arguments *)

PathInit ==
  /\ args \in PathArgs
  /\ path = <<>>
  /\ pc = "call"
  /\ cfg = NoConfig /\ host = NoHost
  /\ fillAttrs = Empty /\ lineAttrs = Empty
  /\ container = <<>> /\ animLog = <<>> /\ console = <<>>
  /\ threw = FALSE /\ draws = 0

CallGetWaterWavePath ==
  /\ pc = "call"
  /\ path' = getWaterWavePath(args.radius, args.waterLevel, args.waveLength,
                              args.phase, args.amplitude, args.cx, args.cy)
  /\ pc' = "done"
  /\ UNCHANGED <<args, cfg, host, fillAttrs, lineAttrs, container, animLog,
                 console, threw, draws>>

PathNext == CallGetWaterWavePath

SpecPath == PathInit /\ [][PathNext]_vars

---------------------------------------------------------------------------
(* SpecAttrs: getFillAttrs and getLineAttrs on arbitrary style / color *)

AttrsInit ==
  /\ cfg \in AttrConfigs
  /\ fillAttrs = Empty /\ lineAttrs = Empty
  /\ pc = {}
  /\ args = <<>> /\ path = <<>> /\ host = NoHost
  /\ container = <<>> /\ animLog = <<>> /\ console = <<>>
  /\ threw = FALSE /\ draws = 0

CallGetFillAttrs ==
  /\ "fill" \notin pc
  /\ fillAttrs' = getFillAttrs(cfg)
  /\ pc' = pc \cup {"fill"}
  /\ UNCHANGED <<args, path, cfg, host, lineAttrs, container, animLog,
                 console, threw, draws>>

CallGetLineAttrs ==
  /\ "line" \notin pc
  /\ lineAttrs' = getLineAttrs(cfg)
  /\ pc' = pc \cup {"line"}
  /\ UNCHANGED <<args, path, cfg, host, fillAttrs, container, animLog,
                 console, threw, draws>>

AttrsNext == CallGetFillAttrs \/ CallGetLineAttrs

SpecAttrs == AttrsInit /\ [][AttrsNext]_vars

---------------------------------------------------------------------------
(* Spec: draw called repeatedly by the host on one container *)

Init ==
  /\ cfg \in DrawConfigs
  /\ host \in Hosts
  /\ RLt(R(0), Radius(cfg, host))   \* the documented precondition radius > 0
  /\ container = <<>> /\ animLog = <<>> /\ console = <<>>
  /\ threw = FALSE /\ draws = 0
  /\ pc = "draw"
  /\ args = <<>> /\ path = <<>>
  /\ fillAttrs = Empty /\ lineAttrs = Empty

\* mutant of Draw: the container is cleared before drawing
DrawClearing ==
  /\ draws < MaxDraws
  /\ \E r \in {draw(cfg, <<>>, host)} :
        /\ container' = r.container
        /\ animLog' = animLog \o r.anim
        /\ console' = console \o r.console
        /\ threw' = r.threw
  /\ draws' = draws + 1
  /\ UNCHANGED <<args, path, pc, cfg, host, fillAttrs, lineAttrs>>

\* the host calls draw(cfg, container)
Draw ==
  /\ draws < MaxDraws
  /\ \E r \in {draw(cfg, container, host)} :
        /\ container' = r.container
        /\ animLog' = animLog \o r.anim
        /\ console' = console \o r.console
        /\ threw' = r.threw
  /\ draws' = draws + 1
  /\ UNCHANGED <<args, path, pc, cfg, host, fillAttrs, lineAttrs>>

Next == Draw

Spec == Init /\ [][Next]_vars

---------------------------------------------------------------------------
(* Properties of getWaterWavePath, checked under SpecPath *)

Returned == pc = "done"

\* indices of the commands of path with the given tag
Commands(tag) == {i \in 1..Len(path) : path[i][1] = tag}

\* what the returned path shows: its start x, the number of curves, the
\* rational part of the end x of its last curve
PathLeft == path[1][2][1]
PathCurves == Cardinality(Commands("C"))
PathRight == path[Len(path) - 3][6][1]

\* ceil((2 * radius / waveLength) * 4) * 2, in integers
ClaimedCurveCount ==
  LET num == 8 * args.radius[1] * args.waveLength[2]
      den == args.radius[2] * args.waveLength[1]
  IN ((num + den - 1) \div den) * 2

\* C1: the returned path is one MoveTo first, ClosePath last, and exactly
\* ceil((2*radius/waveLength)*4)*2 CubicBezierTo commands in between.
C1_PathShape ==
  Returned =>
    /\ Commands("M") = {1}
    /\ Commands("Z") = {Len(path)}
    /\ PathCurves = ClaimedCurveCount
    /\ \A i \in Commands("C") : 1 < i /\ i < Len(path)

\* a returned path whose curve count needed rounding up: 8/3 -> 3 -> 6
C1_Witness ==
  /\ Returned
  /\ args.radius = R(1) /\ args.waveLength = R(3) /\ args.amplitude = R(2)
  /\ PathCurves = 6

\* the path the same arguments give one full period earlier
PathOnePeriodEarlier ==
  getWaterWavePath(args.radius, args.waterLevel, args.waveLength,
                   RSub(args.phase, TwoPi), args.amplitude, args.cx, args.cy)

\* C2 as stated: for every phase p, phase p and phase p - 2*pi give
\* identical paths (p = 0 and every whole multiple of the period included).
C2_PeriodicEveryPhase == Returned => path = PathOnePeriodEarlier

\* C2 amended: for every phase p other than 0, phase p and phase p - 2*pi
\* give identical paths.
C2_PeriodicNonZeroPhase ==
  (Returned /\ args.phase # R(0)) => path = PathOnePeriodEarlier

\* a whole positive multiple of the period, where the two paths agree
C2_Witness ==
  /\ Returned
  /\ args.phase = TwoPi
  /\ path = PathOnePeriodEarlier

\* the horizontal offset the returned path shows: left - (cx - radius - 2*radius)
PathOffset ==
  RSub(PathLeft, RSub(RSub(args.cx, args.radius), RMul(args.radius, R(2))))

\* C3 as stated: the normalised phase lies in (-2*pi, 0], so the offset lies
\* in (-waveLength, 0].
C3_PhaseHalfOpen ==
  Returned =>
    /\ RLt(RNeg(TwoPi), NormalizePhase(args.phase))
    /\ RLe(NormalizePhase(args.phase), R(0))
    /\ RLt(RNeg(args.waveLength), PathOffset)
    /\ RLe(PathOffset, R(0))

\* C3 amended: the normalised phase lies in the closed interval [-2*pi, 0],
\* so the offset lies in [-waveLength, 0].
C3_PhaseClosed ==
  Returned =>
    /\ RLe(RNeg(TwoPi), NormalizePhase(args.phase))
    /\ RLe(NormalizePhase(args.phase), R(0))
    /\ RLe(RNeg(args.waveLength), PathOffset)
    /\ RLe(PathOffset, R(0))
    /\ PathOffset = RMul(RDiv(NormalizePhase(args.phase), R(2)), args.waveLength)

\* the lower end is attained: a negative whole multiple of the period
C3_Witness ==
  /\ Returned
  /\ args.phase = RNeg(RMul(R(2), TwoPi))
  /\ PathOffset = RNeg(args.waveLength)

\* C8: the path's x-extent [left, end of last curve] contains
\* [cx - radius, cx + radius], for every phase.
C8_CoversCircle ==
  Returned =>
    /\ RLe(PathLeft, RSub(args.cx, args.radius))
    /\ RLe(RAdd(args.cx, args.radius), PathRight)

\* C10: the curve count is even and at least 2, the last curve has stage 1 or
\* 3 and ends on the baseline at (left + curves*waveLength/4, waterLevel); the
\* first LineTo drops vertically to y = cy + radius, the second runs back to
\* x = left at that y, and ClosePath returns to the MoveTo point.
C10_ClosedOutline ==
  Returned =>
    LET n == Len(path)
        last == path[n - 3]
        bottom == RAdd(args.cy, args.radius)
        right == RAdd(PathLeft,
                      RDiv(RMul(R(PathCurves), args.waveLength), R(4)))
    IN /\ PathCurves % 2 = 0 /\ PathCurves >= 2
       /\ (PathCurves - 1) % 4 \in {1, 3}
       /\ last[1] = "C" /\ last[6] = X(right) /\ last[7] = args.waterLevel
       /\ path[n - 2] = <<"L", X(right), bottom>>
       /\ path[n - 1] = <<"L", X(PathLeft), bottom>>
       /\ path[n] = <<"Z">>
       /\ path[1] = <<"M", X(PathLeft), args.waterLevel>>

\* a wave of non-zero amplitude whose last curve has stage 1 (6 curves)
C10_Witness ==
  /\ Returned
  /\ args.amplitude = R(2) /\ args.phase = Q(-1, 2)
  /\ PathCurves = 6
  /\ path[Len(path) - 3][7] = args.waterLevel
  /\ path[Len(path) - 4][7] # args.waterLevel

---------------------------------------------------------------------------
(* Properties of getFillAttrs and getLineAttrs, checked under SpecAttrs *)

\* attrs[key] is value
Holds(attrs, key, value) == Has(attrs, key) /\ attrs[key] = value

\* attrs[key] is whatever style[key] is, undefined included
Same(attrs, style, key) ==
  /\ Has(attrs, key) <=> Has(style, key)
  /\ Has(style, key) => attrs[key] = style[key]

\* opacity is the style's opacity when set, otherwise 1
FillOpacityRule ==
  IF Has(cfg.style, "opacity")
  THEN Holds(fillAttrs, "opacity", cfg.style.opacity)
  ELSE Holds(fillAttrs, "opacity", R(1))

\* C7 as stated: fill is the style's fill whenever the style sets it,
\* whatever the value, otherwise the color when one (non-empty) is supplied;
\* opacity is the style's when set, otherwise 1; the same for stroke in
\* getLineAttrs.
C7_ExplicitAlwaysWins ==
  /\ "fill" \in pc =>
       /\ Has(cfg.style, "fill") => Holds(fillAttrs, "fill", cfg.style.fill)
       /\ (~Has(cfg.style, "fill") /\ Truthy(cfg, "color")) =>
            Holds(fillAttrs, "fill", cfg.color)
       /\ FillOpacityRule
  /\ "line" \in pc =>
       /\ Has(cfg.style, "stroke") =>
            Holds(lineAttrs, "stroke", cfg.style.stroke)
       /\ (~Has(cfg.style, "stroke") /\ Truthy(cfg, "color")) =>
            Holds(lineAttrs, "stroke", cfg.color)

\* C7 amended: fill is the style's fill whenever the style sets a non-empty
\* fill; otherwise it is the color when a non-empty color is supplied (also
\* when the style sets fill to ''); otherwise it is left as the style has
\* it.  Opacity is the style's when set, otherwise 1.  The same for stroke.
C7_TruthyExplicitWins ==
  /\ "fill" \in pc =>
       /\ Truthy(cfg.style, "fill") =>
            Holds(fillAttrs, "fill", cfg.style.fill)
       /\ (~Truthy(cfg.style, "fill") /\ Truthy(cfg, "color")) =>
            Holds(fillAttrs, "fill", cfg.color)
       /\ (~Truthy(cfg.style, "fill") /\ ~Truthy(cfg, "color")) =>
            Same(fillAttrs, cfg.style, "fill")
       /\ FillOpacityRule
  /\ "line" \in pc =>
       /\ Truthy(cfg.style, "stroke") =>
            Holds(lineAttrs, "stroke", cfg.style.stroke)
       /\ (~Truthy(cfg.style, "stroke") /\ Truthy(cfg, "color")) =>
            Holds(lineAttrs, "stroke", cfg.color)
       /\ (~Truthy(cfg.style, "stroke") /\ ~Truthy(cfg, "color")) =>
            Same(lineAttrs, cfg.style, "stroke")

\* both getters have run on a style with an explicit fill and an explicitly
\* empty stroke, with a color: fill is the style's, stroke is the color
C7_Witness ==
  /\ pc = {"fill", "line"}
  /\ Holds(cfg.style, "fill", "#00f") /\ Holds(cfg.style, "stroke", "")
  /\ Holds(cfg.style, "opacity", R(0)) /\ Holds(cfg, "color", "#f00")
  /\ Holds(fillAttrs, "fill", "#00f") /\ Holds(fillAttrs, "opacity", R(0))
  /\ Holds(lineAttrs, "stroke", "#f00")

---------------------------------------------------------------------------
(* Properties of draw, checked under Spec *)

Drawn == draws >= 1

\* what the d-th draw call put into the container
GroupOf(d) == container[2 * d - 1]
RingOf(d) == container[2 * d]
RequestOf(d, i) == animLog[3 * (d - 1) + i]

\* the container holds, per draw call and in this order, a 'waves' group of
\* exactly 3 wave shapes named in index order, then the 'wrap' ring
ThreeWavesThenRing ==
  /\ Len(container) = 2 * draws
  /\ \A d \in 1..draws :
       /\ GroupOf(d).type = "group" /\ GroupOf(d).name = "waves"
       /\ GroupOf(d).clip.type = "circle"
       /\ Len(GroupOf(d).children) = 3
       /\ \A i \in 1..3 :
            /\ GroupOf(d).children[i].type = "path"
            /\ GroupOf(d).children[i].name = "wave-path-" \o ToString(i - 1)
       /\ RingOf(d).type = "circle" /\ RingOf(d).name = "wrap"

\* C4: whichever waves' animate request fails, draw ends normally, all three
\* waves and then the ring are added, animate is requested exactly once per
\* wave, and each failure is logged.
C4_AnimateFailureSwallowed ==
  Drawn =>
    /\ threw = FALSE
    /\ ThreeWavesThenRing
    /\ Len(animLog) = 3 * draws
    /\ \A d \in 1..draws : \A i \in 1..3 :
         RequestOf(d, i).shape = "wave-path-" \o ToString(i - 1)
    /\ Len(console) = draws * Cardinality(host.fails)

\* a draw during which the first and the last wave's animate failed
C4_Witness ==
  /\ draws = 1
  /\ host.fails = {0, 2}
  /\ threw = FALSE
  /\ Len(GroupOf(1).children) = 3
  /\ RingOf(1).name = "wrap"
  /\ Len(console) = 2

\* amplitude a wave path shows: the baseline minus the crest of its first curve
Amplitude(shape) == RSub(shape.attrs.path[1][3], shape.attrs.path[2][5])

OpacityDecreasing(d) ==
  \A i \in 1..2 : RLt(GroupOf(d).children[i + 1].attrs.opacity,
                      GroupOf(d).children[i].attrs.opacity)

AmplitudeDecreasing(d) ==
  \A i \in 1..2 : RLt(Amplitude(GroupOf(d).children[i + 1]),
                      Amplitude(GroupOf(d).children[i]))

\* the opacity getFillAttrs resolves: the style's, otherwise 1
BaseOpacity ==
  IF Has(cfg.style, "opacity") THEN cfg.style.opacity ELSE R(1)

\* C5 as stated: a draw produces exactly 3 wave shapes in index order in the
\* clipped 'waves' group, then 1 ring; opacity and amplitude strictly
\* decrease as the wave index increases.
C5_ThreeWavesStrictlyFading ==
  Drawn =>
    /\ ThreeWavesThenRing
    /\ \A d \in 1..draws : OpacityDecreasing(d) /\ AmplitudeDecreasing(d)

\* C5 amended: as stated, except that opacity strictly decreases only when
\* the resolved base opacity is positive; with base opacity 0 every wave's
\* opacity is 0.
C5_ThreeWavesFadingWhenVisible ==
  Drawn =>
    /\ ThreeWavesThenRing
    /\ \A d \in 1..draws :
         /\ AmplitudeDecreasing(d)
         /\ RLt(R(0), BaseOpacity) => OpacityDecreasing(d)
         /\ BaseOpacity = R(0) =>
              \A i \in 1..3 : GroupOf(d).children[i].attrs.opacity = R(0)

\* a draw with style opacity 1/2: wave opacities 0.3, 0.225, 0.15
C5_Witness ==
  /\ draws = 1
  /\ Holds(cfg.style, "opacity", Q(1, 2))
  /\ GroupOf(1).children[1].attrs.opacity = Q(3, 10)
  /\ GroupOf(1).children[2].attrs.opacity = Q(9, 40)
  /\ GroupOf(1).children[3].attrs.opacity = Q(3, 20)
  /\ AmplitudeDecreasing(1)

\* C6 as stated: after a second draw with the same config on the same
\* container, the container holds what it held after the first: one 'waves'
\* group and one ring.
C6_RedrawSameContents ==
  Drawn =>
    /\ Cardinality({k \in 1..Len(container) : container[k].name = "waves"}) = 1
    /\ Cardinality({k \in 1..Len(container) : container[k].name = "wrap"}) = 1

\* C6 amended: every draw with the same config appends one 'waves' group and
\* one ring equal to those the first draw added, whatever the container
\* already holds; after n draws it holds n groups and n rings.
C6_RedrawAppendsSame ==
  Drawn =>
    /\ Len(container) = 2 * draws
    /\ Len(animLog) = 3 * draws
    /\ \A d \in 1..draws :
         /\ GroupOf(d) = GroupOf(1) /\ GroupOf(d).name = "waves"
         /\ RingOf(d) = RingOf(1) /\ RingOf(d).name = "wrap"
         /\ \A i \in 1..3 : RequestOf(d, i) = RequestOf(1, i)

\* the container after a second draw: two equal groups, two equal rings
C6_Witness ==
  /\ draws = 2
  /\ Len(container) = 4
  /\ container[3] = container[1] /\ container[3].name = "waves"
  /\ container[4] = container[2] /\ container[4].name = "wrap"

\* a 'C' command translated by t along x
ShiftX(cmd, t) ==
  <<cmd[1], XAdd(t, cmd[2]), cmd[3], XAdd(t, cmd[4]), cmd[5],
    XAdd(t, cmd[6]), cmd[7]>>

\* C9 for the i-th wave of the d-th draw
SeamlessLoop(d, i) ==
  LET clip == GroupOf(d).clip.attrs
      minX == RSub(clip.x, clip.r)
      maxX == RAdd(clip.x, clip.r)
      width == RSub(maxX, minX)
      p == GroupOf(d).children[i].attrs.path
      n == Len(p)
      left == p[1][2][1]
      right == p[n - 3][6][1]
      waveLength == RSub(p[5][6][1], left)
      distance == RequestOf(d, i).matrix[7]
      cycles == RDiv(distance, waveLength)
  IN /\ RequestOf(d, i).repeat
     /\ RequestOf(d, i).matrix[8] = R(0)
     /\ distance = RDiv(width, R(2))
     /\ waveLength = RDiv(width, R(4))
     /\ cycles[2] = 1 /\ cycles[1] >= 1
     /\ \A k \in 0..TSteps :
          LET t == RDiv(RMul(distance, R(k)), R(TSteps))
          IN /\ RLe(RAdd(left, t), minX)
             /\ RLe(maxX, RAdd(right, t))
     /\ \A j \in 2..(n - 3 - 4 * cycles[1]) :
          ShiftX(p[j], distance) = p[j + 4 * cycles[1]]

\* C9: each wave's animated translation (half the clip width) is a whole
\* multiple of its wavelength (a quarter of the clip width); at every offset
\* in [0, width/2] the translated path spans the clip circle's x-extent; and
\* the path translated by the full distance coincides with itself, curve for
\* curve, so the wave seen at the end of a cycle is the one at its start.
C9_SeamlessLoop ==
  Drawn =>
    /\ ThreeWavesThenRing
    /\ Len(animLog) = 3 * draws
    /\ \A d \in 1..draws : \A i \in 1..3 : SeamlessLoop(d, i)

\* a draw on a 2 x 2 canvas: clip radius 0.9, translation 0.9, 128 curves
C9_Witness ==
  /\ draws = 1
  /\ host.width = 2 /\ host.height = 2
  /\ GroupOf(1).clip.attrs.r = Q(9, 10)
  /\ RequestOf(1, 3).matrix[7] = Q(9, 10)
  /\ Len(GroupOf(1).children[3].attrs.path) = 132

====
